---- MODULE Spec2Model ----
(***************************************************************************)
(* Model of src/api.py: the module-level startup (credential, chat model,  *)
(* application, parser, prompt) and the handler of POST /refactor-code/.   *)
(*                                                                         *)
(* Python strings are sequences of tokens; a literal of the source is one  *)
(* token carrying its text.  An optional value (None or a value) is a      *)
(* sequence of length 0 or 1.                                              *)
(*                                                                         *)
(* The handler body has no await, so an event loop runs it to completion;  *)
(* the model lets the steps of different requests interleave freely, which *)
(* contains every schedule of the event loop and of a threaded server.     *)
(***************************************************************************)
EXTENDS Integers, Sequences, FiniteSets

VARIABLES environ, boot, shared, req, oracleCalls

vars == <<environ, boot, shared, req, oracleCalls>>

(* ------------------------------ bounds -------------------------------- *)

MaxRequests == 2
MaxMsgLen == 1

Requests == 1..MaxRequests

(* --------------------------- program constants ------------------------ *)

HTTP_200_OK == 200
HTTP_404_NOT_FOUND == 404
HTTP_500_INTERNAL_SERVER_ERROR == 500

CHAT_MODEL == <<"gpt-3.5-turbo">>

EMPTY_DETAIL == <<"Empty response from chat API">>
UNEXPECTED_DETAIL == <<"Unexpected result from chat API">>
INTERNAL_PREFIX == <<"Internal Server error: ">>

None == <<>>
Some(x) == <<x>>

(* --------------------------- input domains ---------------------------- *)

\* CodeInput.code: any string, the empty one included
Codes == {<<>>, <<"c">>}

\* values of the JSON members the model oracle writes
Values == {<<>>, <<"x">>}

LBrace == [t |-> "lbrace"]
RBrace == [t |-> "rbrace"]
Junk == [t |-> "junk"]
Member(key, val) == [t |-> "member", k |-> key, v |-> val]

\* the text of an object that carries both fields, in either order
WellFormedText(rc, lang) ==
    <<LBrace, Member("refactor_code", rc), Member("language", lang), RBrace>>
WellFormedSwapped(rc, lang) ==
    <<LBrace, Member("language", lang), Member("refactor_code", rc), RBrace>>

WellFormedTexts ==
    {WellFormedText(rc, lang) : rc \in Values, lang \in Values}
      \cup {WellFormedSwapped(<<"x">>, <<>>)}
      \cup {<<LBrace, Member("refactor_code", <<>>), Member("language", <<"x">>),
              Member("refactor_code", <<"x">>), RBrace>>}

MalformedTexts ==
    {<<Junk>>, <<LBrace, RBrace>>,
     <<LBrace, Member("refactor_code", <<"x">>), RBrace>>,
     <<LBrace, Member("language", <<"x">>), RBrace>>,
     <<LBrace, Member("refactor_code", <<"x">>), Member("language", <<"x">>)>>}

\* every content the chat model can answer with; <<>> is the empty string
OracleContents == {<<>>} \cup WellFormedTexts \cup MalformedTexts

RECURSIVE SeqsUpTo(_, _)
SeqsUpTo(S, n) ==
    IF n = 0 THEN {<<>>}
    ELSE LET shorter == SeqsUpTo(S, n - 1)
         IN  shorter \cup {Append(s, c) : s \in shorter, c \in S}

\* textual descriptions of the errors the chat client raises
OracleErrorTexts == SeqsUpTo({"b", "o"}, MaxMsgLen)

(* ----------------------------- exceptions ----------------------------- *)

\* class -> the classes it is an instance of
Mro(cls) ==
    CASE cls = "HTTPException" -> {"HTTPException", "Exception", "BaseException"}
      [] cls = "OutputParserException" ->
             {"OutputParserException", "ValueError", "Exception", "BaseException"}
      [] cls = "APIError" -> {"APIError", "Exception", "BaseException"}
      [] OTHER -> {cls, "BaseException"}

IsInstance(e, cls) == cls \in Mro(e.cls)

HTTPException(code, text) ==
    [cls |-> "HTTPException", status_code |-> code, detail |-> text, msg |-> text]
OutputParserException(text) == [cls |-> "OutputParserException", msg |-> text]
APIError(text) == [cls |-> "APIError", msg |-> text]

\* str(e) of an exception built from one message
Str(e) == e.msg

ErrorResponse(code, text) ==
    [model |-> "ErrorResponse", status_code |-> code, message |-> text]

CodeOutput(d) ==
    [model |-> "CodeOutput", refactor_code |-> d["refactor_code"],
     language |-> d["language"]]

(* ------------------------- prompt and parser -------------------------- *)

response_schemas == <<"refactor_code", "language">>

\* the instructions, then the two placeholders
CODE_TEMPLATE == <<"Refactor the code based on the following criteria", "code:", "{code}",
                   "{format_instructions}">>

FormatInstructions(schemas) ==
    <<"The output should be a markdown code snippet">> \o schemas

\* prompt.format_messages: every placeholder is replaced by its argument
RECURSIVE Substitute(_, _, _)
Substitute(template, code, instr) ==
    IF template = <<>> THEN <<>>
    ELSE LET h == Head(template)
             piece == IF h = "{code}" THEN code
                      ELSE IF h = "{format_instructions}" THEN instr
                      ELSE <<h>>
         IN  piece \o Substitute(Tail(template), code, instr)

\* json: an object is a brace, members, a brace
IsJsonObject(text) ==
    /\ Len(text) >= 2
    /\ text[1] = LBrace
    /\ text[Len(text)] = RBrace
    /\ \A i \in 2..(Len(text) - 1) : text[i].t = "member"

\* json.loads keeps the last of the members that share a key
JsonObject(text) ==
    LET idx == 2..(Len(text) - 1)
        last(key) == CHOOSE i \in idx :
                        /\ text[i].k = key
                        /\ \A j \in idx : text[j].k = key => j <= i
    IN  [key \in {text[i].k : i \in idx} |-> text[last(key)].v]

RECURSIVE FirstMissing(_, _)
FirstMissing(expected, obj) ==
    IF expected = <<>> THEN None
    ELSE IF Head(expected) \notin DOMAIN obj THEN Some(Head(expected))
    ELSE FirstMissing(Tail(expected), obj)

\* StructuredOutputParser.parse: the object, or OutputParserException
Parse(schemas, text) ==
    IF ~IsJsonObject(text)
    THEN [ok |-> FALSE,
          exc |-> OutputParserException(<<"Got invalid JSON object">>)]
    ELSE LET obj == JsonObject(text)
             missing == FirstMissing(schemas, obj)
         IN  IF missing # None
             THEN [ok |-> FALSE,
                   exc |-> OutputParserException(
                             <<"Got invalid return object. Expected key", missing[1]>>)]
             ELSE [ok |-> TRUE, value |-> obj]

\* a test of the values instead of the dict
TruthyValues(obj) == \A key \in DOMAIN obj : obj[key] # <<>>

\* truth value of a dict
Truthy(obj) == DOMAIN obj # {}

(* ------------------------------ startup ------------------------------- *)

Unset == [OPENAI_API_KEY |-> None, chat_model |-> None, app |-> FALSE,
          code_parser |-> None, format_instructions |-> None, prompt |-> None]

NewRequest == [pc |-> "idle", code |-> <<>>, data |-> None, reply |-> None,
               parsed |-> None, exc |-> None, response_status |-> None,
               ret |-> None, calls |-> 0, after_failure |-> FALSE]

Init ==
    /\ environ \in {None, Some("sk-key")}
    /\ boot = "config"
    /\ shared = Unset
    /\ req = [r \in Requests |-> NewRequest]
    /\ oracleCalls = 0

\* startup without the test of line 27
LoadConfigNoCheck ==
    /\ boot = "config"
    /\ shared' = [shared EXCEPT !.OPENAI_API_KEY = environ]
    /\ boot' = "model"
    /\ UNCHANGED <<environ, req, oracleCalls>>

\* lines 24-28
LoadConfig ==
    /\ boot = "config"
    /\ shared' = [shared EXCEPT !.OPENAI_API_KEY = environ]
    /\ boot' = IF environ = None THEN "aborted" ELSE "model"
    /\ UNCHANGED <<environ, req, oracleCalls>>

\* lines 31-35
InitChatModel ==
    /\ boot = "model"
    /\ \E fails \in BOOLEAN :
         IF fails
         THEN /\ boot' = "aborted"
              /\ UNCHANGED shared
         ELSE /\ boot' = "assemble"
              /\ shared' = [shared EXCEPT !.chat_model = Some(CHAT_MODEL)]
    /\ UNCHANGED <<environ, req, oracleCalls>>

\* lines 38-65
Assemble ==
    /\ boot = "assemble"
    /\ shared' = [shared EXCEPT
                    !.app = TRUE,
                    !.code_parser = Some(response_schemas),
                    !.format_instructions = Some(FormatInstructions(response_schemas)),
                    !.prompt = Some(CODE_TEMPLATE)]
    /\ boot' = "main"
    /\ UNCHANGED <<environ, req, oracleCalls>>

\* lines 97-99
Serve ==
    /\ boot = "main"
    /\ boot' = "serving"
    /\ UNCHANGED <<environ, shared, req, oracleCalls>>

(* ------------------------------ handler ------------------------------- *)

SomeFailed == \E q \in Requests : req[q].pc \in {"failed", "propagated"}

\* line 72-73: the application routes a request to the handler; requests are
\* numbered in the order they arrive
Receive(r) ==
    /\ boot = "serving"
    /\ shared.app
    /\ req[r].pc = "idle"
    /\ \A q \in Requests : q < r => req[q].pc # "idle"
    /\ \E c \in Codes :
         req' = [req EXCEPT ![r] = [@ EXCEPT !.pc = "received", !.code = c,
                                              !.after_failure = SomeFailed]]
    /\ UNCHANGED <<environ, boot, shared, oracleCalls>>

\* rendering that binds the code into the shared template
RenderPartial(r) ==
    /\ req[r].pc = "received"
    /\ shared' = [shared EXCEPT
                    !.prompt = Some(Substitute(shared.prompt[1], req[r].code,
                                               <<"{format_instructions}">>))]
    /\ req' = [req EXCEPT ![r] = [@ EXCEPT
                 !.pc = "rendering",
                 !.data = Some(Substitute(shared'.prompt[1], req[r].code,
                                          shared.format_instructions[1]))]]
    /\ UNCHANGED <<environ, boot, oracleCalls>>

\* line 75
Render(r) ==
    /\ req[r].pc = "received"
    /\ req' = [req EXCEPT ![r] = [@ EXCEPT
                 !.pc = "rendering",
                 !.data = Some(Substitute(shared.prompt[1], req[r].code,
                                          shared.format_instructions[1]))]]
    /\ UNCHANGED <<environ, boot, shared, oracleCalls>>

\* a call that reuses the reply another request got for the same code
InvokeOracleCached(r) ==
    /\ req[r].pc = "rendering"
    /\ shared.chat_model # None
    /\ LET hits == {q \in Requests : /\ q # r
                                     /\ req[q].code = req[r].code
                                     /\ req[q].reply # None
                                     /\ req[q].reply[1].kind = "content"}
       IN  IF hits # {}
           THEN /\ \E q \in hits :
                     req' = [req EXCEPT ![r] = [@ EXCEPT !.pc = "validating",
                                                           !.reply = req[q].reply]]
                /\ UNCHANGED oracleCalls
           ELSE /\ req' = [req EXCEPT ![r] = [@ EXCEPT !.pc = "awaiting_model",
                                                      !.calls = @ + 1]]
                /\ oracleCalls' = oracleCalls + 1
    /\ UNCHANGED <<environ, boot, shared>>

\* line 76, the call leaves: chat_ai is the chat_model that get_chat_instance returns
InvokeOracle(r) ==
    /\ req[r].pc = "rendering"
    /\ shared.chat_model # None
    /\ req' = [req EXCEPT ![r] = [@ EXCEPT !.pc = "awaiting_model",
                                          !.calls = @ + 1]]
    /\ oracleCalls' = oracleCalls + 1
    /\ UNCHANGED <<environ, boot, shared>>

\* a return that goes to the parser without the test of line 77
OracleReturnToParse(r) ==
    /\ req[r].pc = "awaiting_model"
    /\ \E c \in OracleContents :
         req' = [req EXCEPT ![r] = [@ EXCEPT
                   !.pc = "parsing",
                   !.reply = Some([kind |-> "content", content |-> c])]]
    /\ UNCHANGED <<environ, boot, shared, oracleCalls>>

\* line 76, the call returns a message
OracleReturn(r) ==
    /\ req[r].pc = "awaiting_model"
    /\ \E c \in OracleContents :
         req' = [req EXCEPT ![r] = [@ EXCEPT
                   !.pc = "validating",
                   !.reply = Some([kind |-> "content", content |-> c])]]
    /\ UNCHANGED <<environ, boot, shared, oracleCalls>>

\* line 76, the call raises
OracleRaise(r) ==
    /\ req[r].pc = "awaiting_model"
    /\ \E m \in OracleErrorTexts :
         req' = [req EXCEPT ![r] = [@ EXCEPT
                   !.pc = "except",
                   !.reply = Some([kind |-> "raise", exc |-> APIError(m)]),
                   !.exc = Some(APIError(m))]]
    /\ UNCHANGED <<environ, boot, shared, oracleCalls>>

\* a test for None instead of emptiness: the empty string passes
CheckEmptyNone(r) ==
    /\ req[r].pc = "validating"
    /\ req' = [req EXCEPT ![r] = [@ EXCEPT !.pc = "parsing"]]
    /\ UNCHANGED <<environ, boot, shared, oracleCalls>>

\* lines 77-78
CheckEmpty(r) ==
    /\ req[r].pc = "validating"
    /\ IF req[r].reply[1].content = <<>>
       THEN req' = [req EXCEPT ![r] = [@ EXCEPT
                      !.pc = "except",
                      !.exc = Some(HTTPException(HTTP_404_NOT_FOUND, EMPTY_DETAIL))]]
       ELSE req' = [req EXCEPT ![r] = [@ EXCEPT !.pc = "parsing"]]
    /\ UNCHANGED <<environ, boot, shared, oracleCalls>>

\* line 80
ParseReply(r) ==
    /\ req[r].pc = "parsing"
    /\ LET res == Parse(shared.code_parser[1], req[r].reply[1].content)
       IN  IF res.ok
           THEN req' = [req EXCEPT ![r] = [@ EXCEPT !.pc = "parsed",
                                                 !.parsed = Some(res.value)]]
           ELSE req' = [req EXCEPT ![r] = [@ EXCEPT !.pc = "except",
                                                 !.exc = Some(res.exc)]]
    /\ UNCHANGED <<environ, boot, shared, oracleCalls>>

\* lines 81-84
ReturnResult(r) ==
    /\ req[r].pc = "parsed"
    /\ IF ~Truthy(req[r].parsed[1])
       THEN req' = [req EXCEPT ![r] = [@ EXCEPT
                      !.pc = "except",
                      !.exc = Some(HTTPException(HTTP_500_INTERNAL_SERVER_ERROR,
                                                 UNEXPECTED_DETAIL))]]
       ELSE req' = [req EXCEPT ![r] = [@ EXCEPT
                      !.pc = "success",
                      !.ret = Some(CodeOutput(req[r].parsed[1]))]]
    /\ UNCHANGED <<environ, boot, shared, oracleCalls>>

\* the second clause without the exception's text
HandleExceptionNoText(r) ==
    /\ req[r].pc = "except"
    /\ LET e == req[r].exc[1]
       IN  IF IsInstance(e, "HTTPException")
           THEN req' = [req EXCEPT ![r] = [@ EXCEPT
                          !.pc = "failed",
                          !.response_status = Some(e.status_code),
                          !.ret = Some(ErrorResponse(e.status_code, e.detail))]]
           ELSE req' = [req EXCEPT ![r] = [@ EXCEPT
                          !.pc = "failed",
                          !.response_status = Some(HTTP_500_INTERNAL_SERVER_ERROR),
                          !.ret = Some(ErrorResponse(HTTP_500_INTERNAL_SERVER_ERROR,
                                                     INTERNAL_PREFIX))]]
    /\ UNCHANGED <<environ, boot, shared, oracleCalls>>

\* the first clause without line 88
HandleExceptionNoStatus(r) ==
    /\ req[r].pc = "except"
    /\ LET e == req[r].exc[1]
       IN  IF IsInstance(e, "HTTPException")
           THEN req' = [req EXCEPT ![r] = [@ EXCEPT
                          !.pc = "failed",
                          !.ret = Some(ErrorResponse(e.status_code, e.detail))]]
           ELSE req' = [req EXCEPT ![r] = [@ EXCEPT
                          !.pc = "failed",
                          !.response_status = Some(HTTP_500_INTERNAL_SERVER_ERROR),
                          !.ret = Some(ErrorResponse(HTTP_500_INTERNAL_SERVER_ERROR,
                                                     INTERNAL_PREFIX \o Str(e)))]]
    /\ UNCHANGED <<environ, boot, shared, oracleCalls>>

\* the first clause alone: any other exception leaves the handler
HandleExceptionHttpOnly(r) ==
    /\ req[r].pc = "except"
    /\ LET e == req[r].exc[1]
       IN  IF IsInstance(e, "HTTPException")
           THEN req' = [req EXCEPT ![r] = [@ EXCEPT
                          !.pc = "failed",
                          !.response_status = Some(e.status_code),
                          !.ret = Some(ErrorResponse(e.status_code, e.detail))]]
           ELSE req' = [req EXCEPT ![r] = [@ EXCEPT !.pc = "propagated"]]
    /\ UNCHANGED <<environ, boot, shared, oracleCalls>>

\* lines 86-94
HandleException(r) ==
    /\ req[r].pc = "except"
    /\ LET e == req[r].exc[1]
       IN  IF IsInstance(e, "HTTPException")
           THEN req' = [req EXCEPT ![r] = [@ EXCEPT
                          !.pc = "failed",
                          !.response_status = Some(e.status_code),
                          !.ret = Some(ErrorResponse(e.status_code, e.detail))]]
           ELSE IF IsInstance(e, "Exception")
           THEN req' = [req EXCEPT ![r] = [@ EXCEPT
                          !.pc = "failed",
                          !.response_status = Some(HTTP_500_INTERNAL_SERVER_ERROR),
                          !.ret = Some(ErrorResponse(HTTP_500_INTERNAL_SERVER_ERROR,
                                                     INTERNAL_PREFIX \o Str(e)))]]
           ELSE req' = [req EXCEPT ![r] = [@ EXCEPT !.pc = "propagated"]]
    /\ UNCHANGED <<environ, boot, shared, oracleCalls>>

Next ==
    \/ LoadConfig
    \/ InitChatModel
    \/ Assemble
    \/ Serve
    \/ \E r \in Requests : Receive(r)
    \/ \E r \in Requests : Render(r)
    \/ \E r \in Requests : InvokeOracle(r)
    \/ \E r \in Requests : OracleReturn(r)
    \/ \E r \in Requests : OracleRaise(r)
    \/ \E r \in Requests : CheckEmpty(r)
    \/ \E r \in Requests : ParseReply(r)
    \/ \E r \in Requests : ReturnResult(r)
    \/ \E r \in Requests : HandleException(r)

Spec == Init /\ [][Next]_vars

\* the status the client sees: the Response object's, else the decorator's
HttpStatus(r) ==
    IF req[r].response_status = None THEN HTTP_200_OK
    ELSE req[r].response_status[1]

TypeOK ==
    /\ boot \in {"config", "model", "assemble", "main", "serving", "aborted"}
    /\ oracleCalls \in 0..MaxRequests
    /\ \A r \in Requests : req[r].pc \in
         {"idle", "received", "rendering", "awaiting_model", "validating",
          "parsing", "parsed", "except", "success", "failed", "propagated"}

(* ------------------------------ properties ---------------------------- *)

Terminal(r) == req[r].pc \in {"success", "failed", "propagated"}

HasContent(r) == req[r].reply # None /\ req[r].reply[1].kind = "content"
Raised(r) == req[r].reply # None /\ req[r].reply[1].kind = "raise"
Content(r) == req[r].reply[1].content

\* s occurs in text as a contiguous run
Contains(text, s) ==
    \E i \in 0..(Len(text) - Len(s)) : SubSeq(text, i + 1, i + Len(s)) = s

IsErrorResponse(r) == req[r].ret # None /\ req[r].ret[1].model = "ErrorResponse"

\* C1: a request with non-empty code whose oracle reply is a well-formed
\* object carrying refactor_code and language never enters the failure path,
\* and once it has returned it is in success with HTTP 200 and a body whose
\* two fields are exactly the values the oracle wrote.
C1_SuccessExact ==
    \A r \in Requests : \A rc \in Values, lang \in Values :
        ( /\ req[r].code # <<>>
          /\ HasContent(r)
          /\ Content(r) \in {WellFormedText(rc, lang), WellFormedSwapped(rc, lang)} )
        => /\ req[r].pc \notin {"except", "failed", "propagated"}
           /\ req[r].response_status = None
           /\ req[r].pc = "success" =>
                /\ HttpStatus(r) = HTTP_200_OK
                /\ req[r].ret = Some([model |-> "CodeOutput",
                                      refactor_code |-> rc, language |-> lang])

C1_Witness ==
    \E r \in Requests :
        /\ req[r].pc = "success"
        /\ req[r].code # <<>>
        /\ Content(r) = WellFormedText(<<"x">>, <<>>)

\* C2: when the oracle's text does not match the two-field schema, the
\* response is HTTP 500 with ErrorResponse(500, "Unexpected result from chat
\* API"), whatever the text or the parser's error text.
C2_FixedUnexpectedMessage ==
    \A r \in Requests :
        (HasContent(r) /\ Content(r) \in MalformedTexts /\ Terminal(r))
        => /\ req[r].pc = "failed"
           /\ HttpStatus(r) = HTTP_500_INTERNAL_SERVER_ERROR
           /\ req[r].ret = Some(ErrorResponse(HTTP_500_INTERNAL_SERVER_ERROR,
                                              UNEXPECTED_DETAIL))

\* C3: when the oracle returns empty content the parse step is never
\* performed, no CodeOutput is returned, and the response is HTTP 404 with
\* ErrorResponse(404, "Empty response from chat API").
C3_EmptyIs404 ==
    \A r \in Requests :
        (HasContent(r) /\ Content(r) = <<>>)
        => /\ req[r].pc \in {"validating", "except", "failed"}
           /\ req[r].parsed = None
           /\ req[r].ret # None => IsErrorResponse(r)
           /\ req[r].pc = "failed" =>
                /\ HttpStatus(r) = HTTP_404_NOT_FOUND
                /\ req[r].ret = Some(ErrorResponse(HTTP_404_NOT_FOUND, EMPTY_DETAIL))

C3_Witness ==
    \E r \in Requests :
        HasContent(r) /\ Content(r) = <<>> /\ req[r].pc = "failed"

\* C4: when the oracle call raises an exception whose description is m, the
\* response is HTTP 500 with an ErrorResponse whose status_code is 500 and
\* whose message contains m.
C4_OracleErrorEmbedded ==
    \A r \in Requests :
        Raised(r)
        => /\ req[r].pc \in {"except", "failed"}
           /\ req[r].pc = "failed" =>
                /\ HttpStatus(r) = HTTP_500_INTERNAL_SERVER_ERROR
                /\ IsErrorResponse(r)
                /\ req[r].ret[1].status_code = HTTP_500_INTERNAL_SERVER_ERROR
                /\ Contains(req[r].ret[1].message, Str(req[r].reply[1].exc))

C4_Witness ==
    \E r \in Requests :
        /\ Raised(r)
        /\ Str(req[r].reply[1].exc) = <<"b">>
        /\ req[r].pc = "failed"

\* C5: on every failure response the transport-level HTTP status equals the
\* status_code field of the ErrorResponse body.
C5_StatusAgrees ==
    \A r \in Requests :
        (req[r].pc = "failed" \/ IsErrorResponse(r))
        => /\ IsErrorResponse(r)
           /\ HttpStatus(r) = req[r].ret[1].status_code

C5_Witness ==
    \E r, q \in Requests :
        /\ req[r].pc = "failed" /\ HttpStatus(r) = HTTP_404_NOT_FOUND
        /\ req[q].pc = "failed" /\ HttpStatus(q) = HTTP_500_INTERNAL_SERVER_ERROR

\* the status the failure kind calls for
StatusOfOutcome(r) ==
    IF Raised(r) THEN HTTP_500_INTERNAL_SERVER_ERROR
    ELSE IF Content(r) = <<>> THEN HTTP_404_NOT_FOUND
    ELSE IF Content(r) \in MalformedTexts THEN HTTP_500_INTERNAL_SERVER_ERROR
    ELSE HTTP_200_OK

\* C6: no failure of a request leaves the handler as a raw exception or stops
\* the process: a request whose oracle outcome is a failure never reaches
\* success, a returned failure is an ErrorResponse whose HTTP status is the
\* one of its failure kind, and the process is still serving.
C6_FailuresRecovered ==
    \A r \in Requests :
        /\ req[r].pc # "propagated"
        /\ req[r].pc # "idle" => boot = "serving"
        /\ req[r].pc = "success" => StatusOfOutcome(r) = HTTP_200_OK
        /\ req[r].pc = "failed" =>
             /\ IsErrorResponse(r)
             /\ StatusOfOutcome(r) # HTTP_200_OK
             /\ HttpStatus(r) = StatusOfOutcome(r)
             /\ req[r].ret[1].status_code = StatusOfOutcome(r)

\* a request that arrived after another had failed is served
C6_Witness ==
    \E r, q \in Requests :
        /\ req[q].pc = "failed" /\ Raised(q)
        /\ req[r].after_failure
        /\ req[r].pc = "success"

\* C7: when the credential is absent at startup, startup aborts before the
\* chat model, the application or the listener exist: no request is received
\* and the oracle is never invoked.
C7_NoCredentialNoService ==
    environ = None
    => /\ boot \in {"config", "aborted"}
       /\ shared.chat_model = None
       /\ ~shared.app
       /\ \A r \in Requests : req[r].pc = "idle"
       /\ oracleCalls = 0

C7_Witness == environ = None /\ boot = "aborted"

PastInvoke(r) == req[r].pc \notin {"idle", "received", "rendering"}

\* C8: a request invokes the oracle exactly once, whatever the outcome, and
\* never reuses another request's result: the number of oracle invocations is
\* the number of requests that have reached the call.
C8_OneCallPerRequest ==
    /\ \A r \in Requests : req[r].calls = IF PastInvoke(r) THEN 1 ELSE 0
    /\ oracleCalls = Cardinality({r \in Requests : PastInvoke(r)})

C8_Witness ==
    /\ \A r \in Requests : Terminal(r) /\ req[r].code = <<"c">>
    /\ \E r \in Requests : req[r].pc = "failed" /\ Raised(r)
    /\ \E r \in Requests : req[r].pc = "failed" /\ HasContent(r)
    /\ oracleCalls = MaxRequests

StartupValues ==
    [OPENAI_API_KEY |-> environ, chat_model |-> Some(CHAT_MODEL), app |-> TRUE,
     code_parser |-> Some(response_schemas),
     format_instructions |-> Some(FormatInstructions(response_schemas)),
     prompt |-> Some(CODE_TEMPLATE)]

C9_Isolated ==
    /\ boot = "serving" => shared = StartupValues
    /\ \A r, q \in Requests :
         /\ (req[r].data # None /\ req[q].data # None /\ req[r].code = req[q].code)
               => req[r].data = req[q].data
         /\ (Terminal(r) /\ Terminal(q) /\ req[r].code = req[q].code
               /\ req[r].reply = req[q].reply)
               => (req[r].pc = req[q].pc /\ req[r].ret = req[q].ret
                     /\ HttpStatus(r) = HttpStatus(q))

C9_Step ==
    /\ boot = "serving" => shared' = shared
    /\ \A r, q \in Requests : (req'[r] # req[r] /\ req'[q] # req[q]) => r = q
    /\ \A r \in Requests : Terminal(r) => req'[r] = req[r]

\* C9: with the steps of several requests interleaved in any order, the
\* shared objects keep their startup values, a step of one request changes no
\* other request, and equal code and equal oracle outcome give equal rendered
\* prompt, status and body.
C9_NoInterference == [](C9_Isolated) /\ [][C9_Step]_vars

C9_Witness ==
    \E r, q \in Requests :
        /\ req[r].pc = "awaiting_model"
        /\ req[q].pc = "success"
        /\ req[r].code = req[q].code

\* position of a handler state on the path of section 4.3; the failure path is 6
Stage(pc) ==
    CASE pc = "idle" -> 0
      [] pc = "received" -> 1
      [] pc = "rendering" -> 2
      [] pc = "awaiting_model" -> 3
      [] pc \in {"validating", "parsing", "parsed"} -> 4
      [] pc = "success" -> 5
      [] OTHER -> 6

C10_Ordered ==
    \A r \in Requests :
        /\ Stage(req[r].pc) >= 3 => req[r].data # None
        /\ req[r].calls > 0 => req[r].data # None
        /\ (req[r].pc \in {"parsing", "parsed"} \/ req[r].parsed # None)
             => (HasContent(r) /\ Content(r) # <<>>)
        /\ req[r].pc = "success" => req[r].parsed # None

C10_Step ==
    \A r \in Requests :
        LET a == Stage(req[r].pc)
            b == Stage(req'[r].pc)
        IN  /\ b # a => \/ b = a + 1
                        \/ b = 6 /\ a \in 1..4
            /\ req'[r].pc = "success" => req[r].pc \in {"parsed", "success"}
            /\ req[r].pc \in {"success", "failed"} => req'[r] = req[r]

\* C10: a request moves only along received, rendering, awaiting-model,
\* parsing, success, or leaves that path to failed: the oracle is invoked
\* only after rendering, the parser only sees non-empty content of a call
\* that returned, success comes only from parsing, and success and failed
\* are terminal.
C10_StateOrder == [](C10_Ordered) /\ [][C10_Step]_vars

C10_Witness ==
    \E r, q \in Requests :
        /\ req[r].pc = "success"
        /\ req[q].pc = "failed" /\ HasContent(q) /\ Content(q) = <<>>
====
